---- MODULE Spec2Model ----
(***************************************************************************)
(* Model of the wasm-scoring crate: the binary-image operations of         *)
(* image_ops.rs (distance transform, dilation, erosion, Zhang-Suen         *)
(* thinning, endpoint search, gap bridging, pruning) and the scorer of     *)
(* scoring.rs (stroke normaliser, the three metrics, the weighted score    *)
(* and the star rating).                                                   *)
(*                                                                         *)
(* A raster is a function on 0..(width*height - 1), row-major, exactly as  *)
(* the Vec<bool> / Vec<f32> buffers of the code (idx = y * width + x).     *)
(* f32 distances are kept in thousandths (1.0 = 1000, 1.414 = 1414); sums  *)
(* of step costs are exact in that unit and every comparison the code      *)
(* makes on them (<= 2.5, <= 4.0) is far from a rounding tie.  Metric      *)
(* values in [0,1] are kept in ten-thousandths (1.0 = 10000).              *)
(***************************************************************************)
EXTENDS Integers, Sequences, FiniteSets, TLC

VARIABLES
    pc,          \* position of the operation under way
    width,       \* raster width of the image operation
    height,      \* raster height of the image operation
    binary,      \* input mask of the image operation
    iterations,  \* iteration count given to dilation / erosion
    current,     \* skeletonize: the working copy `current`
    changed,     \* skeletonize: the flag `changed` of the pass under way
    passes,      \* skeletonize: number of passes of the loop completed
    removed,     \* skeletonize: pixels the last completed pass removed
    result,      \* value returned by the image operation
    size,        \* side of the canvas the metrics run on
    drawn,       \* normalised grayscale field of the drawing (0..255 / 255)
    reference,   \* normalised grayscale field of the reference
    coverage,    \* metric values, in ten-thousandths
    accuracy,
    similarity,
    score,       \* percentage_score (u8)
    stars,
    feedback,
    skeleton,    \* bridge_gaps / prune_branches: the buffer `skeleton`
    max_gap,     \* bridge_gaps: the argument max_gap
    endpoints,   \* bridge_gaps: the list `endpoints` taken at entry
    cursor,      \* bridge_gaps: position of the for loop in `endpoints`
    best_target, \* bridge_gaps: best_target of the endpoint last processed
    prune_length,         \* prune_branches: the argument prune_length
    max_removal_percent,  \* prune_branches: the fraction, in hundredths
    max_removal,          \* prune_branches: the budget `max_removal`
    total_removed,        \* prune_branches: the counter `total_removed`
    round,       \* prune_branches: rounds of the for loop completed
    target_thickness,  \* normalize_line_thickness: the argument
    apply_sanding,     \* normalize_line_thickness: the argument
    image,       \* extract_and_center_character: the pixels of the GrayImage
    character,   \* lib.rs entry points: the bytes of the &str argument
    image_data,  \* lib.rs score_drawing: the image bytes, by what they decode to
    font_data,   \* lib.rs entry points: the font bytes, by what they parse to
    steps,       \* lib.rs entry points: the internal stages run, in order
    outcome      \* lib.rs entry points: the Result returned

vars == <<pc, width, height, binary, iterations, current, changed, passes,
          removed, result, size, drawn, reference, coverage, accuracy,
          similarity, score, stars, feedback, skeleton, max_gap, endpoints,
          cursor, best_target, prune_length, max_removal_percent, max_removal,
          total_removed, round, target_thickness, apply_sanding, image,
          character, image_data, font_data, steps, outcome>>

imageVars == <<width, height, binary, iterations>>
skelVars == <<current, changed, passes, removed>>
fieldVars == <<size, drawn, reference>>
metricVars == <<coverage, accuracy, similarity>>
ratingVars == <<score, stars, feedback>>
bridgeVars == <<skeleton, max_gap, endpoints, cursor, best_target>>
pruneVars == <<prune_length, max_removal_percent, max_removal, total_removed, round>>
callVars == <<target_thickness, apply_sanding, image, character, image_data,
              font_data, steps, outcome>>

-----------------------------------------------------------------------------
(* Small arithmetic helpers.                                               *)

Min2(a, b) == IF a <= b THEN a ELSE b

Max2(a, b) == IF a >= b THEN a ELSE b

Abs(a) == IF a < 0 THEN -a ELSE a

\* A Vec of the code: the function f held as the array of its values, so that
\* a read of a cell does not evaluate the rule that defined f again.
vec(f) == CHOOSE g \in {f} : g = f

\* F applied to the value of v, with v evaluated once (a `let` binding).
bind(v, F(_)) == CHOOSE r \in {F(x) : x \in {v}} : TRUE

\* Number of true cells: v.iter().filter(|&&x| x).count()
count_true(v) == Cardinality({i \in DOMAIN v : v[i]})

\* v.iter().any(|&x| x)
any_true(v) == \E i \in DOMAIN v : v[i]

-----------------------------------------------------------------------------
(* distance_transform_edt: two-pass chamfer propagation.                   *)

\* f32::MAX, the initial value of every cell of `result`.
F32_MAX == 2000000000

\* Step costs 1.0 and 1.414 in thousandths.
STEP_AXIS == 1000

STEP_DIAG == 1414

\* Addition that wraps around at the sentinel, as a fixed-width integer
\* distance would.
f32_add_wrapping(a, c) == (a + c) % F32_MAX

\* f32 addition of a step cost: f32::MAX + 1.0 and f32::MAX + 1.414 round
\* back to f32::MAX (the step is far below half an ulp of f32::MAX), so the
\* sentinel neither grows to infinity nor wraps; finite distances add exactly.
f32_add(a, c) == IF a >= F32_MAX THEN F32_MAX ELSE a + c

\* The scans below are the loops of the code run cell by cell (row by row);
\* a range lo..hi is run as its first half followed by its second half, and
\* CHOOSE r \in {F(a) : a \in {e}} : TRUE is F(e) with e computed first, which
\* keeps the evaluation depth logarithmic in the raster size.

\* The cell (x, y) of the forward scan.  prev is row y-1 after its forward
\* scan (a sequence, cell x at position x+1; unused when y = 0); acc holds
\* the cells of row y already written (x' < x).
edt_forward_cell(bin, w, y, prev, x, acc) ==
    LET idx == y * w + x
        m0 == F32_MAX
        m1 == IF x > 0 THEN Min2(m0, f32_add(acc[x], STEP_AXIS)) ELSE m0
        m2 == IF y > 0 THEN Min2(m1, f32_add(prev[x + 1], STEP_AXIS)) ELSE m1
        m3 == IF x > 0 /\ y > 0
              THEN Min2(m2, f32_add(prev[x], STEP_DIAG)) ELSE m2
        m4 == IF x < w - 1 /\ y > 0
              THEN Min2(m3, f32_add(prev[x + 2], STEP_DIAG)) ELSE m3
    IN IF bin[idx] THEN 0 ELSE m4

\* for x in lo..=hi of the forward scan of row y.
RECURSIVE edt_forward_row(_, _, _, _, _, _, _)
edt_forward_row(bin, w, y, prev, lo, hi, acc) ==
    IF lo > hi THEN acc
    ELSE IF lo = hi THEN Append(acc, edt_forward_cell(bin, w, y, prev, lo, acc))
    ELSE LET mid == (lo + hi) \div 2
         IN CHOOSE r \in {edt_forward_row(bin, w, y, prev, mid + 1, hi, a) :
                             a \in {edt_forward_row(bin, w, y, prev, lo, mid, acc)}} :
                TRUE

\* First pass, for y in lo..=hi; rows is the sequence of the rows finished.
RECURSIVE edt_forward(_, _, _, _, _)
edt_forward(bin, w, lo, hi, rows) ==
    IF lo > hi THEN rows
    ELSE IF lo = hi
    THEN LET prev == IF lo > 0 THEN rows[lo] ELSE <<>>
         IN Append(rows, edt_forward_row(bin, w, lo, prev, 0, w - 1, <<>>))
    ELSE LET mid == (lo + hi) \div 2
         IN CHOOSE r \in {edt_forward(bin, w, mid + 1, hi, a) :
                             a \in {edt_forward(bin, w, lo, mid, rows)}} : TRUE

\* The cell (x, y) of the backward scan.  fw is row y after the forward
\* pass, next is row y+1 after its backward scan (unused on the last row);
\* acc holds the cells x' > x of row y already rewritten (cell x+1 first).
edt_backward_cell(w, h, y, fw, next, x, acc) ==
    LET r0 == fw[x + 1]
        r1 == IF x < w - 1 THEN Min2(r0, f32_add(acc[1], STEP_AXIS)) ELSE r0
        r2 == IF y < h - 1 THEN Min2(r1, f32_add(next[x + 1], STEP_AXIS)) ELSE r1
        r3 == IF x < w - 1 /\ y < h - 1
              THEN Min2(r2, f32_add(next[x + 2], STEP_DIAG)) ELSE r2
        r4 == IF x > 0 /\ y < h - 1
              THEN Min2(r3, f32_add(next[x], STEP_DIAG)) ELSE r3
    IN r4

\* for x in (lo..=hi).rev() of the backward scan of row y.
RECURSIVE edt_backward_row(_, _, _, _, _, _, _, _)
edt_backward_row(w, h, y, fw, next, lo, hi, acc) ==
    IF lo > hi THEN acc
    ELSE IF lo = hi THEN <<edt_backward_cell(w, h, y, fw, next, lo, acc)>> \o acc
    ELSE LET mid == (lo + hi) \div 2
         IN CHOOSE r \in {edt_backward_row(w, h, y, fw, next, lo, mid, a) :
                             a \in {edt_backward_row(w, h, y, fw, next, mid + 1, hi, acc)}} :
                TRUE

\* The distance transform without its second pass.
edt_backward_skipped(w, h, fwd, lo, hi, rows) == fwd

\* Second pass, for y in (lo..=hi).rev(); rows holds the rows finished
\* (row hi+1 first).
RECURSIVE edt_backward(_, _, _, _, _, _)
edt_backward(w, h, fwd, lo, hi, rows) ==
    IF lo > hi THEN rows
    ELSE IF lo = hi
    THEN LET next == IF lo < h - 1 THEN rows[1] ELSE <<>>
         IN <<edt_backward_row(w, h, lo, fwd[lo + 1], next, 0, w - 1, <<>>)>> \o rows
    ELSE LET mid == (lo + hi) \div 2
         IN CHOOSE r \in {edt_backward(w, h, fwd, lo, mid, a) :
                             a \in {edt_backward(w, h, fwd, mid + 1, hi, rows)}} : TRUE

distance_transform_edt(bin, w, h) ==
    LET fwd == edt_forward(bin, w, 0, h - 1, <<>>)
        rows == edt_backward(w, h, fwd, 0, h - 1, <<>>)
    IN vec([idx \in 0..(w * h - 1) |-> rows[(idx \div w) + 1][(idx % w) + 1]])

-----------------------------------------------------------------------------
(* binary_dilation / binary_erosion with the 3x3 structuring element.      *)

in_bounds(nx, ny, w, h) == ny >= 0 /\ ny < h /\ nx >= 0 /\ nx < w

\* A dilation pass that looks at the 4-neighbourhood only.
dilate_once_cross(cur, w, h) ==
    vec([idx \in 0..(w * h - 1) |->
            LET x == idx % w
                y == idx \div w
            IN \E dy \in -1..1 : \E dx \in -1..1 :
                   /\ dx = 0 \/ dy = 0
                   /\ in_bounds(x + dx, y + dy, w, h)
                   /\ cur[(y + dy) * w + (x + dx)]])

\* One pass of the dilation loop: next[idx] = has_neighbor, read from current.
dilate_once(cur, w, h) ==
    vec([idx \in 0..(w * h - 1) |->
            LET x == idx % w
                y == idx \div w
            IN \E dy \in -1..1 : \E dx \in -1..1 :
                   in_bounds(x + dx, y + dy, w, h) /\ cur[(y + dy) * w + (x + dx)]])

RECURSIVE binary_dilation(_, _, _, _)
binary_dilation(bin, w, h, iters) ==
    IF iters = 0 THEN bin
    ELSE dilate_once(binary_dilation(bin, w, h, iters - 1), w, h)

\* An erosion pass that skips the neighbours that are out of bounds.
erode_once_clipped(cur, w, h) ==
    vec([idx \in 0..(w * h - 1) |->
            LET x == idx % w
                y == idx \div w
            IN \A dy \in -1..1 : \A dx \in -1..1 :
                   in_bounds(x + dx, y + dy, w, h) => cur[(y + dy) * w + (x + dx)]])

\* One pass of the erosion loop: next[idx] = all_neighbors; a neighbour that
\* is out of bounds clears all_neighbors.
erode_once(cur, w, h) ==
    vec([idx \in 0..(w * h - 1) |->
            LET x == idx % w
                y == idx \div w
            IN \A dy \in -1..1 : \A dx \in -1..1 :
                   in_bounds(x + dx, y + dy, w, h) /\ cur[(y + dy) * w + (x + dx)]])

RECURSIVE binary_erosion(_, _, _, _)
binary_erosion(bin, w, h, iters) ==
    IF iters = 0 THEN bin
    ELSE erode_once(binary_erosion(bin, w, h, iters - 1), w, h)

-----------------------------------------------------------------------------
(* skeletonize: Zhang-Suen thinning.                                       *)

\* P2..P9, clockwise from the top, as a sequence (neighbors[i] is position i+1).
get_neighbors(bin, x, y, w) ==
    << bin[(y - 1) * w + x],
       bin[(y - 1) * w + x + 1],
       bin[y * w + x + 1],
       bin[(y + 1) * w + x + 1],
       bin[(y + 1) * w + x],
       bin[(y + 1) * w + x - 1],
       bin[y * w + x - 1],
       bin[(y - 1) * w + x - 1] >>

count_transitions(neighbors) ==
    Cardinality({i \in 0..7 : ~neighbors[i + 1] /\ neighbors[((i + 1) % 8) + 1]})

count_neighbors(neighbors) == Cardinality({i \in 1..8 : neighbors[i]})

should_remove_subiteration1(bin, x, y, w) ==
    LET neighbors == get_neighbors(bin, x, y, w)
        n == count_neighbors(neighbors)
        t == count_transitions(neighbors)
    IN /\ n >= 2 /\ n <= 6
       /\ t = 1
       /\ ~(neighbors[1] /\ neighbors[3] /\ neighbors[5])
       /\ ~(neighbors[3] /\ neighbors[5] /\ neighbors[7])

should_remove_subiteration2(bin, x, y, w) ==
    LET neighbors == get_neighbors(bin, x, y, w)
        n == count_neighbors(neighbors)
        t == count_transitions(neighbors)
    IN /\ n >= 2 /\ n <= 6
       /\ t = 1
       /\ ~(neighbors[1] /\ neighbors[3] /\ neighbors[7])
       /\ ~(neighbors[1] /\ neighbors[5] /\ neighbors[7])

\* for y in 1..height - 1 { for x in 1..width - 1 { ... } }
interior(idx, w, h) ==
    LET x == idx % w
        y == idx \div w
    IN x >= 1 /\ x <= w - 2 /\ y >= 1 /\ y <= h - 2

\* Sub-iteration 1 done in place: each pixel is tested on the mask with the
\* earlier removals of the same sweep already applied.
RECURSIVE sweep1_in_place(_, _, _, _, _)
sweep1_in_place(cur, w, h, idx, rm) ==
    IF idx >= w * h THEN rm
    ELSE IF /\ interior(idx, w, h)
            /\ cur[idx]
            /\ should_remove_subiteration1(cur, idx % w, idx \div w, w)
         THEN sweep1_in_place([cur EXCEPT ![idx] = FALSE], w, h, idx + 1,
                              rm \cup {idx})
         ELSE sweep1_in_place(cur, w, h, idx + 1, rm)

to_remove1_in_place(cur, w, h) == sweep1_in_place(cur, w, h, 0, {})

\* The to_remove list of sub-iteration 1 / 2, collected on cur as a whole.
to_remove1(cur, w, h) ==
    {idx \in 0..(w * h - 1) :
        /\ interior(idx, w, h)
        /\ cur[idx]
        /\ should_remove_subiteration1(cur, idx % w, idx \div w, w)}

to_remove2(cur, w, h) ==
    {idx \in 0..(w * h - 1) :
        /\ interior(idx, w, h)
        /\ cur[idx]
        /\ should_remove_subiteration2(cur, idx % w, idx \div w, w)}

\* for idx in &to_remove { current[*idx] = false; }
clear_all(cur, rm) ==
    vec([idx \in DOMAIN cur |-> IF idx \in rm THEN FALSE ELSE cur[idx]])

\* `changed` set by the latest to_remove list alone.
changed_after_overwritten(chg, rm) == rm # {}

\* `changed` after the for loop over a to_remove list (changed = true in the
\* body of the loop).
changed_after(chg, rm) == chg \/ rm # {}

\* The loop of skeletonize run to its exit.
RECURSIVE skeletonize_loop(_, _, _)
skeletonize_loop(cur, w, h) ==
    LET rm1 == to_remove1(cur, w, h)
        c1 == clear_all(cur, rm1)
        rm2 == to_remove2(c1, w, h)
        c2 == clear_all(c1, rm2)
    IN IF ~changed_after(changed_after(FALSE, rm1), rm2) THEN c2
       ELSE skeletonize_loop(c2, w, h)

skeletonize(bin, w, h) == skeletonize_loop(bin, w, h)

-----------------------------------------------------------------------------
(* find_endpoints, bridge_gaps, draw_line, prune_branches.                 *)

\* neighbor_count of find_endpoints: foreground cells among the 8 neighbours.
endpoint_neighbor_count(sk, x, y, w) ==
    Cardinality({d \in {<<dx, dy>> \in (-1..1) \X (-1..1) : ~(dx = 0 /\ dy = 0)} :
                    sk[(y + d[2]) * w + (x + d[1])]})

\* The endpoint test with "at most one" in place of "exactly one".
is_endpoint_at_most_one(sk, idx, w, h) ==
    /\ interior(idx, w, h)
    /\ sk[idx]
    /\ endpoint_neighbor_count(sk, idx % w, idx \div w, w) <= 1

is_endpoint(sk, idx, w, h) ==
    /\ interior(idx, w, h)
    /\ sk[idx]
    /\ endpoint_neighbor_count(sk, idx % w, idx \div w, w) = 1

\* The endpoints as the sequence of <<x, y>> in row-major scan order.
find_endpoints(sk, w, h) ==
    LET cells == [i \in 1..(w * h) |-> i - 1]
        Test(idx) == is_endpoint(sk, idx, w, h)
        hits == SelectSeq(cells, Test)
    IN vec([i \in 1..Len(hits) |-> <<hits[i] % w, hits[i] \div w>>])

\* Bresenham: the loop of draw_line from (x, y) with error term err.
RECURSIVE draw_line_loop(_, _, _, _, _, _, _, _, _, _, _)
draw_line_loop(buf, w, x, y, x1, y1, dx, dy, sx, sy, err) ==
    LET idx == y * w + x
        img == IF x >= 0 /\ y >= 0 /\ idx \in DOMAIN buf
               THEN [buf EXCEPT ![idx] = TRUE] ELSE buf
        e2 == 2 * err
        stepx == e2 >= dy
        stepy == e2 <= dx
        err1 == IF stepx THEN err + dy ELSE err
        err2 == IF stepy THEN err1 + dx ELSE err1
    IN IF x = x1 /\ y = y1 THEN img
       ELSE draw_line_loop(img, w,
                           IF stepx THEN x + sx ELSE x,
                           IF stepy THEN y + sy ELSE y,
                           x1, y1, dx, dy, sx, sy, err2)

draw_line(buf, w, x0, y0, x1, y1) ==
    LET dx == Abs(x1 - x0)
        dy == -Abs(y1 - y0)
        sx == IF x0 < x1 THEN 1 ELSE -1
        sy == IF y0 < y1 THEN 1 ELSE -1
    IN draw_line_loop(buf, w, x0, y0, x1, y1, dx, dy, sx, sy, dx + dy)

\* The candidates of the target search of one endpoint, as window offsets
\* <<dx, dy>>: in the window, in bounds, foreground, not a direct neighbour.
bridge_candidates(sk, w, h, ex, ey, gap) ==
    {d \in (-gap..gap) \X (-gap..gap) :
        /\ ~(d[1] = 0 /\ d[2] = 0)
        /\ in_bounds(ex + d[1], ey + d[2], w, h)
        /\ sk[(ey + d[2]) * w + (ex + d[1])]
        /\ ~(Abs(d[2]) <= 1 /\ Abs(d[1]) <= 1)}

\* dist = sqrt(dx*dx + dy*dy) is compared by its square: sqrt is strictly
\* increasing on the integers met here, so dist < best_dist is the order of
\* the squares, and the first bound max_gap + 1.0 is (max_gap + 1)^2.
dist2(d) == d[1] * d[1] + d[2] * d[2]

\* Scan order of the window: dy outer, dx inner.
scans_before(d, e) == d[2] < e[2] \/ (d[2] = e[2] /\ d[1] < e[1])

\* The search starts from best_dist = max_gap instead of max_gap + 1.0.
bridge_target_short(sk, w, h, ex, ey, gap) ==
    LET cand == {d \in bridge_candidates(sk, w, h, ex, ey, gap) :
                    dist2(d) < gap * gap}
    IN IF cand = {} THEN <<>>
       ELSE LET best == CHOOSE d \in cand :
                            \A e \in cand \ {d} :
                                \/ dist2(d) < dist2(e)
                                \/ (dist2(d) = dist2(e) /\ scans_before(d, e))
            IN <<ex + best[1], ey + best[2]>>

\* best_target after the scan: the strict test dist < best_dist keeps the
\* first of the nearest candidates.  <<>> stands for None.
bridge_target(sk, w, h, ex, ey, gap) ==
    LET cand == {d \in bridge_candidates(sk, w, h, ex, ey, gap) :
                    dist2(d) < (gap + 1) * (gap + 1)}
    IN IF cand = {} THEN <<>>
       ELSE LET best == CHOOSE d \in cand :
                            \A e \in cand \ {d} :
                                \/ dist2(d) < dist2(e)
                                \/ (dist2(d) = dist2(e) /\ scans_before(d, e))
            IN <<ex + best[1], ey + best[2]>>

\* The search of every endpoint reads a copy of the skeleton taken at entry.
searched_snapshot(live, entry) == entry

\* The buffer the target search reads: draw_line writes into `skeleton`
\* inside the loop and the next search reads the same buffer.
searched(live, entry) == live

\* The loop over the endpoints found at entry; sk is the skeleton as the
\* earlier endpoints left it.
RECURSIVE bridge_gaps_loop(_, _, _, _, _, _)
bridge_gaps_loop(sk, w, h, gap, found, i) ==
    IF i > Len(found) THEN sk
    ELSE LET ex == found[i][1]
             ey == found[i][2]
             target == bridge_target(searched(sk, sk), w, h, ex, ey, gap)
             sk1 == IF target = <<>> THEN sk
                    ELSE draw_line(sk, w, ex, ey, target[1], target[2])
         IN CHOOSE r \in {bridge_gaps_loop(a, w, h, gap, found, i + 1) :
                             a \in {sk1}} : TRUE

bridge_gaps(sk, w, h, gap) ==
    bridge_gaps_loop(sk, w, h, gap, find_endpoints(sk, w, h), 1)

\* The budget rounded up instead of truncated.
max_removal_of_ceil(initial_pixels, percent) == (initial_pixels * percent + 99) \div 100

\* max_removal = (initial_pixels as f32 * max_removal_percent) as u32, the
\* fraction given in hundredths.
max_removal_of(initial_pixels, percent) == (initial_pixels * percent) \div 100

\* One round of prune_branches: removes the first (max_removal -
\* total_removed) endpoints.  Returns <<skeleton, total_removed>>.
\* A round that does not fit the budget is dropped whole.
round_take_dropped(n, remaining) == IF n > remaining THEN 0 ELSE n

\* endpoints.iter().take((max_removal - total_removed) as usize): how many
\* of the n endpoints of a round are removed.
round_take(n, remaining) == Min2(n, remaining)

RECURSIVE prune_loop(_, _, _, _, _, _)
prune_loop(sk, w, h, rounds_left, budget, taken) ==
    IF rounds_left = 0 \/ taken >= budget THEN sk
    ELSE LET found == find_endpoints(sk, w, h)
             take == round_take(Len(found), budget - taken)
             rm == {found[i][2] * w + found[i][1] : i \in 1..take}
         IN IF Len(found) = 0 THEN sk
            ELSE prune_loop(clear_all(sk, rm), w, h, rounds_left - 1,
                            budget, taken + take)

prune_branches(sk, w, h, rounds, percent) ==
    prune_loop(sk, w, h, rounds,
               max_removal_of(count_true(sk), percent), 0)

-----------------------------------------------------------------------------
(* scoring.rs: stroke normaliser, metrics, weighted score, star rating.    *)

\* const TARGET_SIZE: u32 = 128
TARGET_SIZE == 128

\* Metric values: 1.0 in ten-thousandths.
UNIT == 10000

\* Gray level of a field cell holding 1.0 (cells hold src_pixel / 255.0).
WHITE == 255

\* drawn.iter().map(|&v| v < 0.5): v = p / 255 is below 0.5 exactly when
\* 2p < 255 (127/255 < 0.5 < 128/255).
binarize(field) == vec([i \in DOMAIN field |-> 2 * field[i] < WHITE])

\* The regrowth without the return of the input on an empty skeleton.
normalize_line_thickness_no_fallback(bin, w, h, thickness, sanding) ==
    IF ~any_true(bin) THEN bin
    ELSE bind(IF sanding
              THEN prune_branches(
                       bridge_gaps(skeletonize(bin, w, h), w, h, 10),
                       w, h, 8, 15)
              ELSE skeletonize(bin, w, h), LAMBDA skel :
         IF thickness > 1
         THEN IF ~any_true(skel) THEN skel
              ELSE bind(distance_transform_edt(skel, w, h), LAMBDA dist :
                   vec([i \in DOMAIN dist |->
                           2 * dist[i] <= thickness * 1000]))
         ELSE skel)

normalize_line_thickness(bin, w, h, thickness, sanding) ==
    IF ~any_true(bin) THEN bin
    ELSE bind(IF sanding
              THEN prune_branches(
                       bridge_gaps(skeletonize(bin, w, h), w, h, 10),
                       w, h, 8, 15)
              ELSE skeletonize(bin, w, h), LAMBDA skel :
         IF thickness > 1
         THEN IF ~any_true(skel) THEN bin
              ELSE bind(distance_transform_edt(skel, w, h), LAMBDA dist :
                   \* d <= target_thickness / 2.0, d in thousandths
                   vec([i \in DOMAIN dist |->
                           2 * dist[i] <= thickness * 1000]))
         ELSE skel)

\* Sum of f over lo..hi (the accumulating loops of the metrics).
RECURSIVE sum_range(_, _, _)
sum_range(f, lo, hi) ==
    IF lo > hi THEN 0
    ELSE IF lo = hi THEN f[lo]
    ELSE LET mid == (lo + hi) \div 2
         IN sum_range(f, lo, mid) + sum_range(f, mid + 1, hi)

\* (a / b).min(1.0) of two pixel counts, in ten-thousandths.
ratio(a, b) == Min2((a * UNIT) \div b, UNIT)

\* The tolerance test with the comparison turned around.
within_tolerance_reversed(dist, tolerance) == dist >= tolerance * 1000

\* dist <= tolerance, dist in thousandths.
within_tolerance(dist, tolerance) == dist <= tolerance * 1000

calculate_coverage_score(drawn_field, reference_field, sz) ==
    bind(normalize_line_thickness(binarize(drawn_field), sz, sz, 5, TRUE),
         LAMBDA drawn_norm :
    bind(normalize_line_thickness(binarize(reference_field), sz, sz, 5, FALSE),
         LAMBDA reference_norm :
    LET tolerance == 4
        ref_pixels == count_true(reference_norm)
        drawn_pixels == count_true(drawn_norm)
    IN IF ref_pixels = 0 THEN 0
       ELSE IF drawn_pixels = 0 THEN 0
       ELSE bind(distance_transform_edt(drawn_norm, sz, sz), LAMBDA drawn_dist :
            ratio(Cardinality({i \in DOMAIN reference_norm :
                                  /\ reference_norm[i]
                                  /\ within_tolerance(drawn_dist[i], tolerance)}),
                  ref_pixels))))

\* The accuracy metric with the empty-drawing guard dropped: 0.0 / 0.0 is
\* NaN and NaN.min(1.0) is 1.0.
calculate_accuracy_score_unguarded(drawn_field, reference_field, sz) ==
    bind(normalize_line_thickness(binarize(drawn_field), sz, sz, 5, TRUE),
         LAMBDA drawn_norm :
    bind(normalize_line_thickness(binarize(reference_field), sz, sz, 5, FALSE),
         LAMBDA reference_norm :
    LET drawn_pixels == count_true(drawn_norm)
    IN IF drawn_pixels = 0 THEN UNIT
       ELSE bind(binary_dilation(reference_norm, sz, sz, 5), LAMBDA reference_zone :
            ratio(Cardinality({i \in DOMAIN drawn_norm :
                                  drawn_norm[i] /\ reference_zone[i]}),
                  drawn_pixels))))

calculate_accuracy_score(drawn_field, reference_field, sz) ==
    bind(normalize_line_thickness(binarize(drawn_field), sz, sz, 5, TRUE),
         LAMBDA drawn_norm :
    bind(normalize_line_thickness(binarize(reference_field), sz, sz, 5, FALSE),
         LAMBDA reference_norm :
    LET drawn_pixels == count_true(drawn_norm)
    IN IF drawn_pixels = 0 THEN 0
       ELSE bind(binary_dilation(reference_norm, sz, sz, 5), LAMBDA reference_zone :
            ratio(Cardinality({i \in DOMAIN drawn_norm :
                                  drawn_norm[i] /\ reference_zone[i]}),
                  drawn_pixels))))

\* exp(-1) in ten-thousandths.
EXP_M1 == 3679

\* exp(-f / 1000) for 0 <= f < 1000, in ten-thousandths: the alternating
\* series 1 - f + f^2/2! - ... cut after the 8th power (error < 3e-6).
RECURSIVE exp_series(_, _, _, _)
exp_series(f, k, term, acc) ==
    IF k > 8 THEN acc
    ELSE LET t == (term * f) \div (1000 * k)
         IN exp_series(f, k + 1, t, IF k % 2 = 1 THEN acc - t ELSE acc + t)

\* exp(-x / 1000) in ten-thousandths, x >= 0 in thousandths.
RECURSIVE exp_neg(_)
exp_neg(x) ==
    IF x >= 12000 THEN 0
    ELSE IF x >= 1000 THEN (exp_neg(x - 1000) * EXP_M1) \div UNIT
    ELSE Max2(0, exp_series(x, 1, UNIT, UNIT))

\* Sum of dist over the foreground of mask, divided by pixels.
mean_distance(mask, dist, n, pixels) ==
    sum_range(vec([i \in 0..(n - 1) |-> IF mask[i] THEN dist[i] ELSE 0]),
              0, n - 1) \div pixels

calculate_stroke_similarity(drawn_field, reference_field, sz) ==
    bind(normalize_line_thickness(binarize(drawn_field), sz, sz, 5, TRUE),
         LAMBDA drawn_norm :
    bind(normalize_line_thickness(binarize(reference_field), sz, sz, 5, FALSE),
         LAMBDA ref_norm :
    LET drawn_pixels == count_true(drawn_norm)
        ref_pixels == count_true(ref_norm)
        n == sz * sz
    IN IF drawn_pixels = 0 \/ ref_pixels = 0 THEN 0
       ELSE bind(distance_transform_edt(ref_norm, sz, sz), LAMBDA ref_dist :
            bind(distance_transform_edt(drawn_norm, sz, sz), LAMBDA drawn_dist :
            LET intersection ==
                    Cardinality({i \in 0..(n - 1) : drawn_norm[i] /\ ref_norm[i]})
                union ==
                    Cardinality({i \in 0..(n - 1) : drawn_norm[i] \/ ref_norm[i]})
                \* intersection / (union + 1e-8): the 1e-8 is absorbed by any
                \* union >= 1
                iou == (intersection * UNIT) \div union
                drawn_to_ref == mean_distance(drawn_norm, ref_dist, n, drawn_pixels)
                ref_to_drawn == mean_distance(ref_norm, drawn_dist, n, ref_pixels)
                chamfer_dist == (drawn_to_ref + ref_to_drawn) \div 2
                \* exp(-chamfer_dist / (max_dist / 3.0)) with max_dist = 20.0
                chamfer_score == exp_neg((chamfer_dist * 3) \div 20)
                similarity_raw == (iou * 4 + chamfer_score * 6) \div 10
            IN Max2(Min2(similarity_raw, UNIT), 0)))))

\* combined_score * 100.0, in ten-thousandths of a point:
\* coverage * 0.35 + accuracy * 0.35 + similarity * 0.30, times 100.
combined_times_100(cov, acc, sim) == 35 * cov + 35 * acc + 30 * sim

\* (combined_score * 100.0).min(100.0).max(0.0) as u8: the cast of a float
\* to u8 drops the fraction.
percentage_score(cov, acc, sim) ==
    Max2(Min2(combined_times_100(cov, acc, sim), 100 * UNIT), 0) \div UNIT

\* get_star_rating with the lower edge of every bucket excluded.
get_star_rating_exclusive(s) ==
    IF s > 80 /\ s <= 100 THEN <<5, "Amazing! Perfect!">>
    ELSE IF s > 65 /\ s <= 79 THEN <<4, "Great job!">>
    ELSE IF s > 50 /\ s <= 64 THEN <<3, "Good work!">>
    ELSE IF s > 30 /\ s <= 49 THEN <<2, "Nice try!">>
    ELSE <<1, "Keep practicing!">>

get_star_rating(s) ==
    IF s >= 80 /\ s <= 100 THEN <<5, "Amazing! Perfect!">>
    ELSE IF s >= 65 /\ s <= 79 THEN <<4, "Great job!">>
    ELSE IF s >= 50 /\ s <= 64 THEN <<3, "Good work!">>
    ELSE IF s >= 30 /\ s <= 49 THEN <<2, "Nice try!">>
    ELSE <<1, "Keep practicing!">>

-----------------------------------------------------------------------------
(* Inputs of the checks.                                                   *)

\* Largest raster side of the image-operation checks.
MaxDim == 4

\* Largest number of foreground cells of a sparse mask.
MaxInk == 2

\* Largest number of cells cut out of a solid rectangle.
MaxHoles == 1

\* Largest iteration count given to dilation and erosion.
MaxIter == 2

\* The subsets of cells with at most k elements.
RECURSIVE subsets_upto(_, _)
subsets_upto(cells, k) ==
    IF k = 0 THEN {{}}
    ELSE LET smaller == subsets_upto(cells, k - 1)
         IN smaller \cup {s \cup {c} : s \in smaller, c \in cells}

\* Cell indices of the solid rectangle x0..x1 by y0..y1.
rect_cells(w, x0, x1, y0, y1) == {y * w + x : x \in x0..x1, y \in y0..y1}

solid_rects(w, h) ==
    {rect_cells(w, x0, x1, y0, y1) :
        x0 \in 0..(w - 1), x1 \in 0..(w - 1), y0 \in 0..(h - 1), y1 \in 0..(h - 1)}

\* Foreground sets: sparse ones, and solid rectangles with a few holes.
foreground_sets(w, h) ==
    LET cells == 0..(w * h - 1)
    IN subsets_upto(cells, MaxInk)
           \cup UNION {{r \ hs : hs \in subsets_upto(r, MaxHoles)} :
                           r \in solid_rects(w, h)}

mask_of(fg, w, h) == vec([idx \in 0..(w * h - 1) |-> idx \in fg])

masks(w, h) == {mask_of(fg, w, h) : fg \in foreground_sets(w, h)}

foreground(m) == {i \in DOMAIN m : m[i]}

\* Values of the variables an operation does not use.
ImageIdle ==
    /\ width = 0 /\ height = 0 /\ binary = <<>> /\ iterations = 0

SkelIdle ==
    /\ current = <<>> /\ changed = FALSE /\ passes = 0 /\ removed = 0

FieldIdle ==
    /\ size = 0 /\ drawn = <<>> /\ reference = <<>>

MetricIdle ==
    /\ coverage = 0 /\ accuracy = 0 /\ similarity = 0

RatingIdle ==
    /\ score = 0 /\ stars = 0 /\ feedback = ""

BridgeIdle ==
    /\ max_gap = 0 /\ endpoints = <<>> /\ cursor = 0 /\ best_target = <<>>

PruneIdle ==
    /\ prune_length = 0 /\ max_removal_percent = 0 /\ max_removal = 0
    /\ total_removed = 0 /\ round = 0

NormalizeIdle ==
    /\ target_thickness = 0 /\ apply_sanding = FALSE

EntryIdle ==
    /\ image = <<>> /\ character = <<>> /\ image_data = "" /\ font_data = ""
    /\ steps = <<>> /\ outcome = <<>>

-----------------------------------------------------------------------------
(* SpecMorph: binary_dilation and binary_erosion on every input mask.      *)

MorphInit ==
    /\ pc = "input"
    /\ width \in 1..MaxDim
    /\ height \in 1..MaxDim
    /\ binary \in masks(width, height)
    /\ iterations \in 0..MaxIter
    /\ result = <<>>
    /\ SkelIdle /\ FieldIdle /\ MetricIdle /\ RatingIdle
    /\ skeleton = <<>> /\ BridgeIdle /\ PruneIdle /\ NormalizeIdle /\ EntryIdle

CallDilation ==
    /\ pc = "input"
    /\ result' = binary_dilation(binary, width, height, iterations)
    /\ pc' = "dilated"
    /\ UNCHANGED <<callVars, bridgeVars, pruneVars, imageVars, skelVars, fieldVars, metricVars, ratingVars>>

CallErosion ==
    /\ pc = "input"
    /\ result' = binary_erosion(binary, width, height, iterations)
    /\ pc' = "eroded"
    /\ UNCHANGED <<callVars, bridgeVars, pruneVars, imageVars, skelVars, fieldVars, metricVars, ratingVars>>

MorphNext == CallDilation \/ CallErosion

SpecMorph == MorphInit /\ [][MorphNext]_vars

-----------------------------------------------------------------------------
(* SpecEdt: distance_transform_edt on every input mask.                    *)

EdtInit ==
    /\ pc = "input"
    /\ width \in 1..MaxDim
    /\ height \in 1..MaxDim
    /\ binary \in masks(width, height)
    /\ iterations = 0
    /\ result = <<>>
    /\ SkelIdle /\ FieldIdle /\ MetricIdle /\ RatingIdle
    /\ skeleton = <<>> /\ BridgeIdle /\ PruneIdle /\ NormalizeIdle /\ EntryIdle

CallDistanceTransform ==
    /\ pc = "input"
    /\ result' = distance_transform_edt(binary, width, height)
    /\ pc' = "edt"
    /\ UNCHANGED <<callVars, bridgeVars, pruneVars, imageVars, skelVars, fieldVars, metricVars, ratingVars>>

EdtNext == CallDistanceTransform

SpecEdt == EdtInit /\ [][EdtNext]_vars

-----------------------------------------------------------------------------
(* SpecSkel: the loop of skeletonize, one step per sub-iteration and one   *)
(* for the test of `changed` that ends a pass.                             *)

\* Largest raster side of the thinning checks.
SkelDim == 5

\* A pass removes a pixel or is the last one, so the loop runs at most one
\* pass per pixel plus one; the guard of the loop-back keeps the state space
\* finite under any to_remove.
MaxPasses == SkelDim * SkelDim + 1

SkelInit ==
    /\ pc = "sub1"
    /\ width \in 2..SkelDim
    /\ height \in 2..SkelDim
    /\ binary \in masks(width, height)
    /\ iterations = 0
    /\ current = binary
    /\ changed = FALSE
    /\ passes = 0
    /\ removed = 0
    /\ result = <<>>
    /\ FieldIdle /\ MetricIdle /\ RatingIdle
    /\ skeleton = <<>> /\ BridgeIdle /\ PruneIdle /\ NormalizeIdle /\ EntryIdle

\* let mut changed = false; sub-iteration 1, collected and then applied.
SkelSub1 ==
    /\ pc = "sub1"
    /\ \E rm \in {to_remove1(current, width, height)} :
          /\ current' = clear_all(current, rm)
          /\ changed' = changed_after(FALSE, rm)
          /\ removed' = Cardinality(rm)
    /\ pc' = "sub2"
    /\ UNCHANGED <<callVars, bridgeVars, pruneVars, imageVars, passes, result, fieldVars, metricVars, ratingVars>>

\* Sub-iteration 2, collected on the mask sub-iteration 1 left.
SkelSub2 ==
    /\ pc = "sub2"
    /\ \E rm \in {to_remove2(current, width, height)} :
          /\ current' = clear_all(current, rm)
          /\ changed' = changed_after(changed, rm)
          /\ removed' = removed + Cardinality(rm)
    /\ pc' = "check"
    /\ UNCHANGED <<callVars, bridgeVars, pruneVars, imageVars, passes, result, fieldVars, metricVars, ratingVars>>

\* if !changed { break; } and the return of `current`.
SkelBreak ==
    /\ pc = "check"
    /\ ~changed
    /\ passes' = passes + 1
    /\ result' = current
    /\ pc' = "done"
    /\ UNCHANGED <<callVars, bridgeVars, pruneVars, imageVars, current, changed, removed, fieldVars, metricVars,
                   ratingVars>>

\* Back to the top of the loop.
SkelAgain ==
    /\ pc = "check"
    /\ changed
    /\ passes < MaxPasses
    /\ passes' = passes + 1
    /\ pc' = "sub1"
    /\ UNCHANGED <<callVars, bridgeVars, pruneVars, imageVars, current, changed, removed, result, fieldVars,
                   metricVars, ratingVars>>

SkelNext == SkelSub1 \/ SkelSub2 \/ SkelBreak \/ SkelAgain

SpecSkel == SkelInit /\ [][SkelNext]_vars

\* The loop is straight-line code: a step that can be taken is taken.
FairSkel == SpecSkel /\ WF_vars(SkelNext)

-----------------------------------------------------------------------------
(* SpecStars: get_star_rating on every u8.                                 *)

\* u8::MAX, the largest value of the parameter `score: u8`.
U8_MAX == 255

StarsInit ==
    /\ pc = "score"
    /\ score \in 0..U8_MAX
    /\ stars = 0
    /\ feedback = ""
    /\ result = <<>>
    /\ ImageIdle /\ SkelIdle /\ FieldIdle /\ MetricIdle
    /\ skeleton = <<>> /\ BridgeIdle /\ PruneIdle /\ NormalizeIdle /\ EntryIdle

CallGetStarRating ==
    /\ pc = "score"
    /\ stars' = get_star_rating(score)[1]
    /\ feedback' = get_star_rating(score)[2]
    /\ pc' = "rated"
    /\ UNCHANGED <<callVars, bridgeVars, pruneVars, imageVars, skelVars, result, fieldVars, metricVars, score>>

StarsNext == CallGetStarRating

SpecStars == StarsInit /\ [][StarsNext]_vars

-----------------------------------------------------------------------------
(* SpecScore: the weighted combination of score_drawing_internal on a grid  *)
(* of metric triples in [0,1].                                             *)

\* The metric values tried are k / MetricSteps, k in 0..MetricSteps.
MetricSteps == 20

metric_grid == {(k * UNIT) \div MetricSteps : k \in 0..MetricSteps}

ScoreInit ==
    /\ pc = "metrics"
    /\ coverage \in metric_grid
    /\ accuracy \in metric_grid
    /\ similarity \in metric_grid
    /\ result = <<>>
    /\ ImageIdle /\ SkelIdle /\ FieldIdle /\ RatingIdle
    /\ skeleton = <<>> /\ BridgeIdle /\ PruneIdle /\ NormalizeIdle /\ EntryIdle

\* Lines 40-45: the combined score, the cast to u8 and the star rating.
CombineScore ==
    /\ pc = "metrics"
    /\ LET percentage == percentage_score(coverage, accuracy, similarity)
       IN /\ score' = percentage
          /\ stars' = get_star_rating(percentage)[1]
          /\ feedback' = get_star_rating(percentage)[2]
    /\ pc' = "scored"
    /\ UNCHANGED <<callVars, bridgeVars, pruneVars, imageVars, skelVars, result, fieldVars, metricVars>>

ScoreNext == CombineScore

SpecScore == ScoreInit /\ [][ScoreNext]_vars

-----------------------------------------------------------------------------
(* SpecMetrics: score_drawing_internal from the two processed fields on,   *)
(* one step per metric and one for the score.  The canvas of the build is  *)
(* TARGET_SIZE; the same code also runs here on a reduced canvas, where    *)
(* the fields can be enumerated.                                           *)

\* Side of the reduced canvas.
SmallCanvas == 3

\* A field with ink (0.0) on the cells fg and paper (1.0) elsewhere.
field_of(fg, sz) ==
    vec([i \in 0..(sz * sz - 1) |-> IF i \in fg THEN 0 ELSE WHITE])

\* Reduced canvas: the blank field and the fields with a single ink cell.
thin_fields == {field_of(fg, SmallCanvas) :
                   fg \in subsets_upto(0..(SmallCanvas * SmallCanvas - 1), 1)}

\* Reduced canvas: the blank field and the fields whose ink is a solid rectangle.
block_fields == {field_of(fg, SmallCanvas) :
                    fg \in {{}} \cup solid_rects(SmallCanvas, SmallCanvas)}

\* The pattern of the tests: (0..TARGET_SIZE * TARGET_SIZE)
\*     .map(|i| if i % 10 == 0 { 0.0 } else { 1.0 })
striped_field == vec([i \in 0..(TARGET_SIZE * TARGET_SIZE - 1) |->
                         IF i % 10 = 0 THEN 0 ELSE WHITE])

\* vec![1.0; TARGET_SIZE * TARGET_SIZE]
blank_field == field_of({}, TARGET_SIZE)

\* The <<drawn, reference>> pairs the tests of the metrics run on.
test_pairs == {<<striped_field, striped_field>>, <<blank_field, striped_field>>,
               <<blank_field, blank_field>>}

MetricsInit ==
    /\ pc = "fields"
    /\ \/ /\ size = TARGET_SIZE
          /\ \E p \in test_pairs : drawn = p[1] /\ reference = p[2]
       \/ /\ size = SmallCanvas
          /\ \/ drawn \in block_fields /\ reference \in thin_fields
             \/ drawn \in thin_fields /\ reference \in block_fields
    /\ result = <<>>
    /\ ImageIdle /\ SkelIdle /\ MetricIdle /\ RatingIdle
    /\ skeleton = <<>> /\ BridgeIdle /\ PruneIdle /\ NormalizeIdle /\ EntryIdle

\* let coverage = calculate_coverage_score(&drawn_processed, &reference_processed);
CallCoverage ==
    /\ pc = "fields"
    /\ coverage' = calculate_coverage_score(drawn, reference, size)
    /\ pc' = "coverage"
    /\ UNCHANGED <<callVars, bridgeVars, pruneVars, imageVars, skelVars, result, fieldVars, accuracy, similarity,
                   ratingVars>>

\* let accuracy = calculate_accuracy_score(&drawn_processed, &reference_processed);
CallAccuracy ==
    /\ pc = "coverage"
    /\ accuracy' = calculate_accuracy_score(drawn, reference, size)
    /\ pc' = "accuracy"
    /\ UNCHANGED <<callVars, bridgeVars, pruneVars, imageVars, skelVars, result, fieldVars, coverage, similarity,
                   ratingVars>>

\* let similarity = calculate_stroke_similarity(&drawn_processed, &reference_processed);
CallSimilarity ==
    /\ pc = "accuracy"
    /\ similarity' = calculate_stroke_similarity(drawn, reference, size)
    /\ pc' = "metrics"
    /\ UNCHANGED <<callVars, bridgeVars, pruneVars, imageVars, skelVars, result, fieldVars, coverage, accuracy,
                   ratingVars>>

MetricsNext == CallCoverage \/ CallAccuracy \/ CallSimilarity \/ CombineScore

SpecMetrics == MetricsInit /\ [][MetricsNext]_vars

-----------------------------------------------------------------------------
(* The score and the star rating.                                          *)

\* 100 * clamp(combined, 0, 1) rounded to the nearest integer, from
\* combined * 100 in ten-thousandths of a point.
rounded_score(times_100) ==
    (Max2(Min2(times_100, 100 * UNIT), 0) + UNIT \div 2) \div UNIT

\* C1: for metric values in [0,1] the score is 100 * clamp(0.35 coverage +
\* 0.35 accuracy + 0.30 similarity, 0, 1) rounded to the nearest integer, and
\* it lies in 0..100.  A combined value within one ten-thousandth of a point
\* of a half may round either way (the f32 sum is not exact).  The cast
\* `as u8` drops the fraction instead.
C1_ScoreIsRounded ==
    pc = "scored" =>
        /\ score \in 0..100
        /\ \E e \in {-1, 0, 1} :
               score = rounded_score(
                           combined_times_100(coverage, accuracy, similarity) + e)

\* C2: get_star_rating maps 80..100 to 5 stars, 65..79 to 4, 50..64 to 3,
\* 30..49 to 2 and 0..29 to 1, each with its feedback string; the star count
\* is in 1..5 for every u8, and over 0..100 no lower score gets more stars.
C2_StarBuckets ==
    pc = "rated" =>
        /\ stars \in 1..5
        /\ score \in 80..100 => stars = 5 /\ feedback = "Amazing! Perfect!"
        /\ score \in 65..79 => stars = 4 /\ feedback = "Great job!"
        /\ score \in 50..64 => stars = 3 /\ feedback = "Good work!"
        /\ score \in 30..49 => stars = 2 /\ feedback = "Nice try!"
        /\ score \in 0..29 => stars = 1 /\ feedback = "Keep practicing!"
        /\ score <= 100 => \A lower \in 0..score : get_star_rating(lower)[1] <= stars

\* The lower edge of the 5-star bucket has been rated.
C2_Witness == pc = "rated" /\ score = 80 /\ stars = 5

-----------------------------------------------------------------------------
(* The metrics.                                                            *)

\* A field has ink where its value is below 0.5.
has_ink(field) == any_true(binarize(field))

\* The positions of score_drawing_internal after each metric is computed.
coverage_known == pc \in {"coverage", "accuracy", "metrics", "scored"} /\ size > 0

accuracy_known == pc \in {"accuracy", "metrics", "scored"} /\ size > 0

similarity_known == pc \in {"metrics", "scored"} /\ size > 0

\* C3: a drawn field without ink gets coverage 0 and accuracy 0 against any
\* reference; a reference without ink gets coverage 0; similarity is 0 when
\* either field is without ink.
C3_EmptyInputsScoreZero ==
    /\ coverage_known /\ (~has_ink(drawn) \/ ~has_ink(reference)) => coverage = 0
    /\ accuracy_known /\ ~has_ink(drawn) => accuracy = 0
    /\ similarity_known /\ (~has_ink(drawn) \/ ~has_ink(reference)) => similarity = 0

\* An empty drawing has been scored against the striped reference.
C3_Witness ==
    /\ similarity_known /\ size = TARGET_SIZE
    /\ ~has_ink(drawn) /\ has_ink(reference)
    /\ coverage = 0 /\ accuracy = 0 /\ similarity = 0

\* Both fields are the striped pattern of the tests.
striped_pair ==
    size = TARGET_SIZE /\ drawn = striped_field /\ reference = striped_field

\* C4: the striped pattern scored against itself gets coverage above 0.9,
\* accuracy above 0.9 and similarity above 0.8.
C4_IdenticalStriped ==
    /\ coverage_known /\ striped_pair => coverage > 9 * (UNIT \div 10)
    /\ accuracy_known /\ striped_pair => accuracy > 9 * (UNIT \div 10)
    /\ similarity_known /\ striped_pair => similarity > 8 * (UNIT \div 10)

\* The striped pattern has been scored against itself.
C4_Witness == similarity_known /\ striped_pair /\ has_ink(drawn) /\ coverage > 0

-----------------------------------------------------------------------------
(* Thinning.                                                               *)

\* Column and row of the cell with index i.
col(i, w) == i % w

row(i, w) == i \div w

\* Two different cells that touch by a side or a corner.
adjacent8(i, j, w) ==
    /\ i # j
    /\ Abs(col(i, w) - col(j, w)) <= 1
    /\ Abs(row(i, w) - row(j, w)) <= 1

\* The cells of fg reachable from seen through 8-adjacent cells of fg.
RECURSIVE grow(_, _, _)
grow(fg, seen, w) ==
    LET more == {j \in fg \ seen : \E i \in seen : adjacent8(i, j, w)}
    IN IF more = {} THEN seen ELSE grow(fg, seen \cup more, w)

\* The 8-connected components of the set of cells fg.
components(fg, w) == {grow(fg, {seed}, w) : seed \in fg}

\* C5: the skeleton is a subset of the input, and what the skeleton keeps of
\* each 8-connected component of the input is one 8-connected component of
\* the skeleton (so it is not empty and not in two pieces).
C5_ConnectivityPreserved ==
    pc = "done" =>
        LET before == foreground(binary)
            after == foreground(result)
        IN /\ after \subseteq before
           /\ \A c \in components(before, width) :
                  (c \cap after) \in components(after, width)

\* C6: the loop of skeletonize reaches its exit; the pass it exits after
\* removed no pixel; on an all-background mask that is the first pass and
\* the mask comes back unchanged.
C6_ThinningTerminates ==
    /\ <>(pc = "done")
    /\ [](pc = "done" => removed = 0)
    /\ [](pc = "done" /\ ~any_true(binary) => passes = 1 /\ result = binary)

\* The loop has ended after a pass that removed pixels and one that did not.
C6_Witness ==
    pc = "done" /\ passes >= 2 /\ removed = 0 /\ result # binary

-----------------------------------------------------------------------------
(* Morphology.                                                             *)

\* Chebyshev distance of two cells.
chebyshev(i, j, w) ==
    Max2(Abs(col(i, w) - col(j, w)), Abs(row(i, w) - row(j, w)))

\* The cells of the raster within Chebyshev distance k of a cell of fg.
chebyshev_ball(fg, w, h, k) ==
    {i \in 0..(w * h - 1) : \E j \in fg : chebyshev(i, j, w) <= k}

\* C7: binary_dilation(mask, k) is foreground exactly at the cells of the
\* raster within Chebyshev distance k of a foreground cell of the mask; with
\* k = 0 it is the mask.
C7_DilationIsChebyshevBall ==
    pc = "dilated" =>
        /\ foreground(result) =
               chebyshev_ball(foreground(binary), width, height, iterations)
        /\ iterations = 0 => result = binary

\* Two dilation passes have grown a mask without filling the raster.
C7_Witness ==
    /\ pc = "dilated" /\ iterations = 2
    /\ any_true(binary)
    /\ \E i \in DOMAIN result : ~result[i]

\* The cells on the border of the raster.
border(w, h) ==
    {i \in 0..(w * h - 1) :
        col(i, w) = 0 \/ col(i, w) = w - 1 \/ row(i, w) = 0 \/ row(i, w) = h - 1}

\* The cell and its 8 neighbours are in bounds and foreground in m.
block_set(m, i, w, h) ==
    \A dy \in -1..1 : \A dx \in -1..1 :
        LET x == col(i, w) + dx
            y == row(i, w) + dy
        IN x >= 0 /\ x < w /\ y >= 0 /\ y < h /\ m[y * w + x]

\* The foreground of m is a solid 3x3 block with centre i.
is_block_3x3(m, i, w, h) ==
    /\ block_set(m, i, w, h)
    /\ Cardinality(foreground(m)) = 9

\* C8: one erosion pass keeps exactly the cells that, with their 8
\* neighbours, were in bounds and foreground; after any k >= 1 passes the
\* border is background and a foreground pixel without foreground neighbour
\* is gone; a solid 3x3 block keeps exactly its centre after one pass; the
\* result is a subset of the input.
C8_ErosionSemantics ==
    pc = "eroded" =>
        /\ iterations = 1 =>
               \A i \in DOMAIN result :
                   result[i] <=> block_set(binary, i, width, height)
        /\ iterations >= 1 =>
               /\ \A i \in border(width, height) : ~result[i]
               /\ \A i \in foreground(binary) :
                      (\A j \in foreground(binary) : ~adjacent8(i, j, width))
                          => ~result[i]
        /\ iterations = 1 =>
               \A i \in DOMAIN binary :
                   is_block_3x3(binary, i, width, height)
                       => foreground(result) = {i}
        /\ foreground(result) \subseteq foreground(binary)

\* A solid 3x3 block has been eroded once and its centre is left.
C8_Witness ==
    /\ pc = "eroded" /\ iterations = 1
    /\ \E i \in DOMAIN binary :
           is_block_3x3(binary, i, width, height) /\ result[i]

-----------------------------------------------------------------------------
(* Distance transform.                                                     *)

\* C9: for a mask with one foreground pixel the distance is 0 at the pixel,
\* 1.0 at its 4-neighbours and 1.414 at its diagonal neighbours, on every
\* side of the pixel.
C9_SinglePixelDistances ==
    pc = "edt" /\ Cardinality(foreground(binary)) = 1 =>
        \A p \in foreground(binary) :
            /\ result[p] = 0
            /\ \A i \in DOMAIN result :
                   /\ (Abs(col(i, width) - col(p, width))
                           + Abs(row(i, width) - row(p, width)) = 1)
                          => result[i] = STEP_AXIS
                   /\ (Abs(col(i, width) - col(p, width)) = 1
                          /\ Abs(row(i, width) - row(p, width)) = 1)
                          => result[i] = STEP_DIAG

\* A single pixel with all 8 neighbours in bounds has been transformed.
C9_Witness ==
    /\ pc = "edt" /\ Cardinality(foreground(binary)) = 1
    /\ \E p \in foreground(binary) :
           /\ ~(p \in border(width, height))
           /\ result[p - width - 1] = STEP_DIAG

\* C10: a cell of the distance transform is 0 exactly when it is foreground
\* in the mask; on an all-background mask every cell holds the sentinel; on
\* an all-foreground mask every cell is 0.
C10_ZeroIffForeground ==
    pc = "edt" =>
        /\ \A i \in DOMAIN result : result[i] = 0 <=> binary[i]
        /\ ~any_true(binary) => \A i \in DOMAIN result : result[i] = F32_MAX
        /\ (\A i \in DOMAIN binary : binary[i]) =>
               \A i \in DOMAIN result : result[i] = 0

\* An all-background mask of more than one row and column has been transformed.
C10_Witness ==
    /\ pc = "edt" /\ width > 1 /\ height > 1
    /\ ~any_true(binary)
    /\ \A i \in DOMAIN result : result[i] = F32_MAX

-----------------------------------------------------------------------------
(* SpecEndpoints: find_endpoints on every input mask.                      *)

EndpointsInit ==
    /\ pc = "skeleton"
    /\ width \in 1..SkelDim
    /\ height \in 1..SkelDim
    /\ binary \in masks(width, height)
    /\ iterations = 0
    /\ result = <<>>
    /\ SkelIdle /\ FieldIdle /\ MetricIdle /\ RatingIdle
    /\ skeleton = <<>> /\ BridgeIdle /\ PruneIdle /\ NormalizeIdle /\ EntryIdle

CallFindEndpoints ==
    /\ pc = "skeleton"
    /\ result' = find_endpoints(binary, width, height)
    /\ pc' = "endpoints"
    /\ UNCHANGED <<callVars, bridgeVars, pruneVars, imageVars, skelVars, fieldVars, metricVars, ratingVars>>

EndpointsNext == CallFindEndpoints

SpecEndpoints == EndpointsInit /\ [][EndpointsNext]_vars

\* Row-major index of the coordinate pair <<x, y>>.
index_of(xy, w) == xy[2] * w + xy[1]

\* The foreground cells of fg that touch p.
touching(fg, p, w) == {q \in fg : adjacent8(p, q, w)}

\* The foreground of m is three cells in a row or in a column, off the border.
is_interior_line3(m, w, h) ==
    \E p \in foreground(m) :
        /\ foreground(m) \in {{p - 1, p, p + 1}, {p - w, p, p + w}}
        /\ row(p - 1, w) = row(p + 1, w)
        /\ foreground(m) \cap border(w, h) = {}

\* The foreground of m is the 8 cells around a background cell, off the border.
is_interior_loop8(m, w, h) ==
    \E c \in DOMAIN m :
        /\ foreground(m) = {q \in DOMAIN m : adjacent8(c, q, w)}
        /\ Cardinality(foreground(m)) = 8
        /\ foreground(m) \cap border(w, h) = {}

\* C11: find_endpoints lists, in row-major order and once each, exactly the
\* foreground cells off the border that touch exactly one foreground cell; a
\* straight 3-pixel line off the border gives its two ends, a closed 8-pixel
\* loop gives none.
C11_EndpointsExact ==
    pc = "endpoints" =>
        LET fg == foreground(binary)
            found == {index_of(result[i], width) : i \in 1..Len(result)}
        IN /\ \A i \in 1..Len(result) : \A j \in 1..Len(result) :
                  i < j => index_of(result[i], width) < index_of(result[j], width)
           /\ \A i \in 1..Len(result) :
                  result[i][1] \in 0..(width - 1) /\ result[i][2] \in 0..(height - 1)
           /\ found = {p \in fg \ border(width, height) :
                          Cardinality(touching(fg, p, width)) = 1}
           /\ is_interior_line3(binary, width, height) =>
                  /\ Len(result) = 2
                  /\ \A p \in found : Cardinality(touching(fg \ found, p, width)) = 1
           /\ is_interior_loop8(binary, width, height) => Len(result) = 0

\* The ends of a 3-pixel line off the border have been found.
C11_Witness ==
    /\ pc = "endpoints"
    /\ is_interior_line3(binary, width, height)
    /\ Len(result) = 2

-----------------------------------------------------------------------------
(* SpecBridge: bridge_gaps, one step for the endpoint enumeration at entry *)
(* and one step per endpoint of the for loop.                              *)

BridgeWidth == 6
BridgeHeight == 3
MaxGap == 3

\* Short strokes: solid rectangles of at most MaxInk cells.
strokes(w, h) == {r \in solid_rects(w, h) : Cardinality(r) <= MaxInk}

\* Skeleton-like inputs of the post-processing: the general masks, and the
\* unions of two short strokes.
stroke_masks(w, h) ==
    masks(w, h) \cup {mask_of(a \cup b, w, h) : a \in strokes(w, h), b \in strokes(w, h)}

BridgeInit ==
    /\ pc = "bridge_entry"
    /\ width \in 1..BridgeWidth
    /\ height \in 1..BridgeHeight
    /\ binary \in stroke_masks(width, height)
    /\ skeleton = binary
    /\ max_gap \in 0..MaxGap
    /\ endpoints = <<>> /\ cursor = 0 /\ best_target = <<>>
    /\ iterations = 0
    /\ result = <<>>
    /\ SkelIdle /\ FieldIdle /\ MetricIdle /\ RatingIdle /\ PruneIdle
    /\ NormalizeIdle /\ EntryIdle

\* let endpoints = find_endpoints(skeleton, width, height)
BridgeEnter ==
    /\ pc = "bridge_entry"
    /\ endpoints' = find_endpoints(skeleton, width, height)
    /\ cursor' = 1
    /\ pc' = "bridging"
    /\ UNCHANGED <<callVars, skeleton, max_gap, best_target, pruneVars, imageVars,
                   skelVars, result, fieldVars, metricVars, ratingVars>>

\* One iteration of `for &(ex, ey) in &endpoints`.
BridgeStep ==
    /\ pc = "bridging"
    /\ cursor <= Len(endpoints)
    /\ \E t \in {bridge_target(searched(skeleton, binary), width, height,
                               endpoints[cursor][1], endpoints[cursor][2],
                               max_gap)} :
          /\ best_target' = t
          /\ skeleton' = IF t = <<>> THEN skeleton
                         ELSE draw_line(skeleton, width, endpoints[cursor][1],
                                        endpoints[cursor][2], t[1], t[2])
    /\ cursor' = cursor + 1
    /\ UNCHANGED <<callVars, pc, max_gap, endpoints, pruneVars, imageVars, skelVars,
                   result, fieldVars, metricVars, ratingVars>>

\* The loop is exhausted: bridge_gaps returns.
BridgeReturn ==
    /\ pc = "bridging"
    /\ cursor > Len(endpoints)
    /\ result' = skeleton
    /\ pc' = "bridged"
    /\ UNCHANGED <<callVars, bridgeVars, pruneVars, imageVars, skelVars, fieldVars,
                   metricVars, ratingVars>>

BridgeNext == BridgeEnter \/ BridgeStep \/ BridgeReturn

SpecBridge == BridgeInit /\ [][BridgeNext]_vars

\* The foreground is two 2-pixel segments of row y, the left one starting at
\* column x0 and the right one at column x2, with background between them.
two_segments(m, w, x0, x2, y) ==
    /\ x0 + 2 < x2
    /\ foreground(m) = {y * w + x0, y * w + x0 + 1, y * w + x2, y * w + x2 + 1}

\* The cell is off the border and has exactly one foreground 8-neighbour.
interior_endpoint(m, p, w, h) ==
    /\ p \notin border(w, h)
    /\ Cardinality(touching(foreground(m), p, w)) = 1

\* C12: when the skeleton is two 2-pixel segments of one row separated by
\* background, the facing ends are at distance <= max_gap and at least one
\* of them is an interior endpoint, bridge_gaps returns a skeleton with
\* strictly more foreground, every gap cell set, and no input pixel cleared.
C12_GapIsBridged ==
    pc = "bridged" =>
        \A y \in 0..(height - 1), x0 \in 0..(width - 1), x2 \in 0..(width - 1) :
            ( /\ x2 + 1 <= width - 1
              /\ two_segments(binary, width, x0, x2, y)
              /\ x2 - (x0 + 1) <= max_gap
              /\ \/ interior_endpoint(binary, y * width + x0 + 1, width, height)
                 \/ interior_endpoint(binary, y * width + x2, width, height) )
            => /\ Cardinality(foreground(result)) > Cardinality(foreground(binary))
               /\ \A x \in (x0 + 2)..(x2 - 1) : result[y * width + x]
               /\ foreground(binary) \subseteq foreground(result)

C12_Witness ==
    /\ pc = "bridged"
    /\ \E y \in 0..(height - 1), x0 \in 0..(width - 1), x2 \in 0..(width - 1) :
          /\ x2 + 1 <= width - 1
          /\ two_segments(binary, width, x0, x2, y)
          /\ x2 - (x0 + 1) <= max_gap
          /\ interior_endpoint(binary, y * width + x2, width, height)
          /\ result[y * width + x0 + 2]

\* Squared Euclidean distance between the cells <<x, y>> p and q.
sq_dist(p, q) == (p[1] - q[1]) * (p[1] - q[1]) + (p[2] - q[2]) * (p[2] - q[2])

\* The foreground cells <<x, y>> of sk in the search window of e, outside
\* the 3x3 neighbourhood of e.
window_pixels(sk, w, h, e, gap) ==
    {q \in (0..(w - 1)) \X (0..(h - 1)) :
        /\ sk[q[2] * w + q[1]]
        /\ Abs(q[1] - e[1]) <= gap /\ Abs(q[2] - e[2]) <= gap
        /\ (Abs(q[1] - e[1]) > 1 \/ Abs(q[2] - e[2]) > 1)}

\* C18: for every endpoint processed, the chosen target (if any) is a
\* foreground pixel outside the 3x3 neighbourhood at Euclidean distance
\* <= max_gap with no window pixel strictly nearer, and when no foreground
\* pixel lies within that distance the skeleton is unchanged for it.
C18_TargetWithinMaxGap ==
    [][(pc = "bridging" /\ cursor' = cursor + 1) =>
           LET e == endpoints[cursor]
               t == best_target'
               seen == window_pixels(skeleton, width, height, e, max_gap)
               near == {q \in seen : sq_dist(q, e) <= max_gap * max_gap}
           IN /\ t # <<>> =>
                    /\ t \in near
                    /\ \A q \in seen : sq_dist(q, e) >= sq_dist(t, e)
              /\ near = {} => (t = <<>> /\ skeleton' = skeleton)]_vars

\* C19: the endpoint list is the one of the skeleton at entry, in row-major
\* order, and is walked from its first to its last element whatever the
\* earlier bridges did; the search of each endpoint reads the skeleton as
\* the earlier lines left it: its target is a nearest window pixel of that
\* current skeleton, and it finds none only when that skeleton has none in
\* reach.
C19_SearchReadsCurrentSkeleton ==
    [][/\ (pc = "bridging" /\ cursor' = cursor + 1) =>
             LET e == endpoints[cursor]
                 t == best_target'
                 seen == window_pixels(skeleton, width, height, e, max_gap)
             IN /\ endpoints' = endpoints
                /\ endpoints = find_endpoints(binary, width, height)
                /\ \A i \in 1..(Len(endpoints) - 1) :
                       index_of(endpoints[i], width) < index_of(endpoints[i + 1], width)
                /\ t # <<>> =>
                       /\ t \in seen
                       /\ \A q \in seen : sq_dist(q, e) >= sq_dist(t, e)
                /\ t = <<>> =>
                       \A q \in seen : sq_dist(q, e) >= (max_gap + 1) * (max_gap + 1)
       /\ (pc = "bridging" /\ pc' = "bridged") => cursor = Len(endpoints) + 1]_vars

\* A later endpoint has chosen a pixel that an earlier bridge added.
C19_Witness ==
    /\ pc = "bridging"
    /\ cursor > 2
    /\ best_target # <<>>
    /\ ~binary[index_of(best_target, width)]
    /\ skeleton[index_of(best_target, width)]

-----------------------------------------------------------------------------
(* SpecPrune: prune_branches, one step for the budget computed at entry    *)
(* and one step per round of the for loop.                                 *)

MaxRounds == 3

\* max_removal_percent, in hundredths.
fractions == {0, 15, 50, 75, 100}

PruneInit ==
    /\ pc = "prune_entry"
    /\ width \in 1..SkelDim
    /\ height \in 1..SkelDim
    /\ binary \in masks(width, height)
    /\ skeleton = binary
    /\ prune_length \in 0..MaxRounds
    /\ max_removal_percent \in fractions
    /\ max_removal = 0 /\ total_removed = 0 /\ round = 0
    /\ iterations = 0
    /\ result = <<>>
    /\ SkelIdle /\ FieldIdle /\ MetricIdle /\ RatingIdle /\ BridgeIdle
    /\ NormalizeIdle /\ EntryIdle

\* initial_pixels, max_removal and total_removed = 0
PruneEnter ==
    /\ pc = "prune_entry"
    /\ max_removal' = max_removal_of(count_true(skeleton), max_removal_percent)
    /\ total_removed' = 0
    /\ round' = 0
    /\ pc' = "pruning"
    /\ UNCHANGED <<callVars, bridgeVars, prune_length, max_removal_percent, imageVars,
                   skelVars, result, fieldVars, metricVars, ratingVars>>

\* One round of `for _ in 0..prune_length` that reaches the removal.
PruneRound ==
    /\ pc = "pruning"
    /\ round < prune_length
    /\ total_removed < max_removal
    /\ \E found \in {find_endpoints(skeleton, width, height)} :
          /\ Len(found) > 0
          /\ endpoints' = found
          /\ \E take \in {round_take(Len(found), max_removal - total_removed)} :
                /\ skeleton' = clear_all(skeleton,
                                   {found[i][2] * width + found[i][1] : i \in 1..take})
                /\ total_removed' = total_removed + take
    /\ round' = round + 1
    /\ UNCHANGED <<callVars, pc, max_gap, cursor, best_target, prune_length,
                   max_removal_percent, max_removal, imageVars, skelVars,
                   result, fieldVars, metricVars, ratingVars>>

\* The loop ends: rounds exhausted, budget used up, or no endpoint left.
PruneReturn ==
    /\ pc = "pruning"
    /\ \/ round >= prune_length
       \/ total_removed >= max_removal
       \/ Len(find_endpoints(skeleton, width, height)) = 0
    /\ result' = skeleton
    /\ pc' = "pruned"
    /\ UNCHANGED <<callVars, bridgeVars, pruneVars, imageVars, skelVars, fieldVars,
                   metricVars, ratingVars>>

PruneNext == PruneEnter \/ PruneRound \/ PruneReturn

SpecPrune == PruneInit /\ [][PruneNext]_vars

\* C13: prune_branches never turns a background pixel into foreground, and
\* after every round the number of pixels removed so far is at most
\* max_removal_fraction times the initial foreground count.
C13_PruneWithinBudget ==
    pc \in {"pruning", "pruned"} =>
        /\ foreground(skeleton) \subseteq foreground(binary)
        /\ 100 * Cardinality(foreground(binary) \ foreground(skeleton))
               <= max_removal_percent * Cardinality(foreground(binary))

\* A round has removed pixels under a budget below the whole skeleton.
C13_Witness ==
    /\ pc = "pruning"
    /\ round >= 1
    /\ max_removal_percent < 100
    /\ Cardinality(foreground(binary) \ foreground(skeleton)) >= 1

\* The endpoint cells of sk, stated on the foreground set.
endpoint_cells(sk, w, h) ==
    {p \in foreground(sk) \ border(w, h) :
        Cardinality(touching(foreground(sk), p, w)) = 1}

\* The k first cells of a set in row-major (index) order.
first_cells(cells, k) == {p \in cells : Cardinality({q \in cells : q < p}) < k}

\* C20: the budget is floor(fraction x initial count); a round with more
\* endpoints than the remaining budget removes exactly the first 'remaining'
\* endpoints in row-major order and brings the removed count to the budget;
\* a round that fits removes every endpoint of the skeleton it started on;
\* once the budget is reached nothing more is removed, and a round that
\* finds no endpoint ends the pruning.
C20_RoundTruncated ==
    [][pc = "pruning" =>
           LET found == endpoint_cells(skeleton, width, height)
               remaining == max_removal - total_removed
               gone == foreground(skeleton) \ foreground(skeleton')
               initial == Cardinality(foreground(binary))
           IN /\ max_removal * 100 <= max_removal_percent * initial
              /\ max_removal_percent * initial < (max_removal + 1) * 100
              /\ round' = round + 1 =>
                    /\ Cardinality(found) > remaining =>
                          /\ gone = first_cells(found, remaining)
                          /\ total_removed' = max_removal
                    /\ Cardinality(found) <= remaining =>
                          /\ gone = found
                          /\ total_removed' = total_removed + Cardinality(found)
              /\ total_removed = max_removal =>
                    (skeleton' = skeleton /\ pc' = "pruned")
              /\ found = {} => (skeleton' = skeleton /\ pc' = "pruned")]_vars

\* A round was cut to the remaining budget with endpoints left over.
C20_Witness ==
    /\ pc = "pruning"
    /\ round >= 1
    /\ total_removed = max_removal
    /\ Len(endpoints) > total_removed
    /\ round < prune_length
    /\ endpoint_cells(skeleton, width, height) # {}

-----------------------------------------------------------------------------
(* SpecNormalize: normalize_line_thickness called on a mask.                *)

MaxThickness == 5

\* Side of the raster of the T-shape of test_prune_branches.
TeeSide == 7

\* The T-shapes: a horizontal bar on the middle row from column 1 to the
\* last interior column, and a vertical spur of 1 or 2 pixels above its
\* middle (2 pixels is the shape of test_prune_branches).
tee_shapes ==
    LET mid == TeeSide \div 2
    IN {mask_of(rect_cells(TeeSide, 1, TeeSide - 2, mid, mid)
                    \cup rect_cells(TeeSide, mid, mid, mid - n, mid - 1),
                TeeSide, TeeSide) : n \in 1..2}

NormalizeInit ==
    /\ pc = "mask"
    /\ \/ /\ width \in 1..MaxDim
          /\ height \in 1..MaxDim
          /\ binary \in masks(width, height)
       \/ /\ width = TeeSide
          /\ height = TeeSide
          /\ binary \in tee_shapes
    /\ target_thickness \in 0..MaxThickness
    /\ apply_sanding \in BOOLEAN
    /\ iterations = 0
    /\ result = <<>>
    /\ skeleton = <<>>
    /\ SkelIdle /\ FieldIdle /\ MetricIdle /\ RatingIdle /\ BridgeIdle
    /\ PruneIdle /\ EntryIdle

CallNormalize ==
    /\ pc = "mask"
    /\ result' = normalize_line_thickness(binary, width, height,
                                          target_thickness, apply_sanding)
    /\ pc' = "normalized"
    /\ UNCHANGED <<callVars, bridgeVars, pruneVars, imageVars, skelVars,
                   fieldVars, metricVars, ratingVars>>

NormalizeNext == CallNormalize

SpecNormalize == NormalizeInit /\ [][NormalizeNext]_vars

\* The skeleton the normaliser works from: skeletonize, then bridge_gaps
\* with gap 10 and prune_branches with 8 rounds and fraction 0.15 when
\* sanding is set.
working_skeleton(m, w, h, sanding) ==
    IF sanding
    THEN prune_branches(bridge_gaps(skeletonize(m, w, h), w, h, 10), w, h, 8, 15)
    ELSE skeletonize(m, w, h)

\* C14: normalize_line_thickness returns the mask itself when it has no
\* foreground; otherwise, with S the (sanded) skeleton, S itself when
\* t <= 1 and, when t > 1, exactly the cells whose distance to S in the
\* distance field of S is at most t / 2.
C14_NormalizeByCases ==
    pc = "normalized" =>
        IF foreground(binary) = {} THEN result = binary
        ELSE LET S == working_skeleton(binary, width, height, apply_sanding)
                 dist == distance_transform_edt(S, width, height)
             IN IF target_thickness <= 1 THEN result = S
                ELSE foreground(result) =
                         {i \in DOMAIN dist : dist[i] <= target_thickness * 500}

-----------------------------------------------------------------------------
(* Claims on the sub-iterations of skeletonize (SpecSkel).                  *)

\* The 8 neighbours of a pixel as offsets <<dx, dy>>, clockwise from the top.
ring == << <<0, -1>>, <<1, -1>>, <<1, 0>>, <<1, 1>>,
           <<0, 1>>, <<-1, 1>>, <<-1, 0>>, <<-1, -1>> >>

\* Whether the k-th ring neighbour (k in 1..8) of cell p is foreground in m.
ring_set(m, p, w, k) == m[(row(p, w) + ring[k][2]) * w + col(p, w) + ring[k][1]]

\* The pixels the claim has sub-iteration `sub` remove, read off the mask m:
\* interior foreground, 2..6 foreground neighbours, one background-to-
\* foreground transition round the ring, and the two conjunction tests on
\* top (1), right (3), bottom (5), left (7).
removable(m, w, h, sub) ==
    {p \in foreground(m) \ border(w, h) :
        LET on(k) == ring_set(m, p, w, k)
            n == Cardinality({k \in 1..8 : on(k)})
            t == Cardinality({k \in 1..8 : ~on(k) /\ on((k % 8) + 1)})
        IN /\ 2 <= n /\ n <= 6
           /\ t = 1
           /\ IF sub = 1
              THEN ~(on(1) /\ on(3) /\ on(5)) /\ ~(on(3) /\ on(5) /\ on(7))
              ELSE ~(on(1) /\ on(3) /\ on(7)) /\ ~(on(1) /\ on(5) /\ on(7))}

\* C17: each sub-iteration clears exactly the pixels that satisfy its
\* conditions on the mask as it was when the sub-iteration started, sets
\* nothing, and leaves every border pixel as it was.
C17_SubIterationRemovesExactly ==
    [][/\ pc = "sub1" =>
             /\ foreground(current) \ foreground(current') = removable(current, width, height, 1)
             /\ foreground(current') \subseteq foreground(current)
       /\ pc = "sub2" =>
             /\ foreground(current) \ foreground(current') = removable(current, width, height, 2)
             /\ foreground(current') \subseteq foreground(current)
       /\ \A p \in border(width, height) : current'[p] = current[p]]_vars

\* A first sub-iteration has removed two pixels that touch each other.
C17_Witness ==
    /\ pc = "sub2"
    /\ passes = 0
    /\ \E p \in foreground(binary), q \in foreground(binary) :
          /\ adjacent8(p, q, width)
          /\ ~current[p] /\ ~current[q]

-----------------------------------------------------------------------------
(* scoring.rs: extract_and_center_character, and SpecExtract calling it.    *)

\* const THRESHOLD: u8 = 200
THRESHOLD == 200

\* The cutoff taken inclusively.
is_drawn_inclusive(pixel) == pixel <= THRESHOLD

\* drawn_mask[..] = pixel < THRESHOLD
is_drawn(pixel) == pixel < THRESHOLD

\* available_size = (TARGET_SIZE as f32 * (1.0 - 2.0 * padding)) as u32,
\* padding = 0.1: 102.4 truncated.
available_size == (TARGET_SIZE * 8) \div 10

\* The bounding box of the drawn pixels; has_content is FALSE without any.
bounding_box(img, w, h) ==
    LET inked == {i \in 0..(w * h - 1) : is_drawn(img[i])}
        xs == {col(i, w) : i \in inked}
        ys == {row(i, w) : i \in inked}
    IN IF inked = {} THEN [has_content |-> FALSE]
       ELSE [has_content |-> TRUE,
             min_x |-> CHOOSE x \in xs : \A z \in xs : x <= z,
             max_x |-> CHOOSE x \in xs : \A z \in xs : x >= z,
             min_y |-> CHOOSE y \in ys : \A z \in ys : y <= z,
             max_y |-> CHOOSE y \in ys : \A z \in ys : y >= z]

\* The canvas as a function on 0..TARGET_SIZE^2 - 1 of gray levels (WHITE is
\* 1.0).  scale = available_size / max(region_width, region_height) is kept
\* as that ratio: region * scale and tx / scale are truncated quotients.
\* <<>> stands for a failed call: TARGET_SIZE - new_width is a u32
\* subtraction.
extract_and_center_character(img, w, h) ==
    bind(bounding_box(img, w, h), LAMBDA bb :
    IF ~bb.has_content
    THEN vec([i \in 0..(TARGET_SIZE * TARGET_SIZE - 1) |-> WHITE])
    ELSE LET region_width == bb.max_x - bb.min_x + 1
             region_height == bb.max_y - bb.min_y + 1
             longest == Max2(region_width, region_height)
             new_width == Max2((region_width * available_size) \div longest, 1)
             new_height == Max2((region_height * available_size) \div longest, 1)
         IN IF new_width > TARGET_SIZE \/ new_height > TARGET_SIZE THEN <<>>
            ELSE bind(<<longest, new_width, new_height,
                        (TARGET_SIZE - new_width) \div 2,
                        (TARGET_SIZE - new_height) \div 2>>, LAMBDA g :
                 vec([i \in 0..(TARGET_SIZE * TARGET_SIZE - 1) |->
                        LET tx == (i % TARGET_SIZE) - g[4]
                            ty == (i \div TARGET_SIZE) - g[5]
                            src_x == bb.min_x + (tx * g[1]) \div available_size
                            src_y == bb.min_y + (ty * g[1]) \div available_size
                        IN IF /\ tx >= 0 /\ tx < g[2]
                              /\ ty >= 0 /\ ty < g[3]
                              /\ src_x < w /\ src_y < h
                           THEN img[src_y * w + src_x]
                           ELSE WHITE])))

ExtractDim == 2

\* Gray levels on both sides of the cutoff.
ink_levels == {0, THRESHOLD - 1, THRESHOLD}
paper_levels == {THRESHOLD, WHITE}

image_of(fg, w, h, ink, paper) ==
    vec([i \in 0..(w * h - 1) |-> IF i \in fg THEN ink ELSE paper])

ExtractInit ==
    /\ pc = "image"
    /\ width \in 0..ExtractDim
    /\ height \in 0..ExtractDim
    /\ \E fg \in foreground_sets(width, height), ink \in ink_levels,
          paper \in paper_levels :
          image = image_of(fg, width, height, ink, paper)
    /\ binary = <<>>
    /\ iterations = 0
    /\ result = <<>>
    /\ skeleton = <<>>
    /\ character = <<>> /\ image_data = "" /\ font_data = ""
    /\ steps = <<>> /\ outcome = <<>>
    /\ SkelIdle /\ FieldIdle /\ MetricIdle /\ RatingIdle /\ BridgeIdle
    /\ PruneIdle /\ NormalizeIdle

CallExtract ==
    /\ pc = "image"
    /\ result' = extract_and_center_character(image, width, height)
    /\ pc' = "extracted"
    /\ UNCHANGED <<callVars, bridgeVars, pruneVars, imageVars, skelVars,
                   fieldVars, metricVars, ratingVars>>

\* The canvas reaches a metric function as `drawn` and is converted there:
\* drawn_binary = drawn.iter().map(|&v| v < 0.5), the mask handed to
\* normalize_line_thickness.
BinarizeCanvas ==
    /\ pc = "extracted"
    /\ drawn' = result
    /\ binary' = binarize(result)
    /\ pc' = "binarized"
    /\ UNCHANGED <<callVars, bridgeVars, pruneVars, width, height, iterations,
                   skelVars, result, size, reference, metricVars, ratingVars>>

ExtractNext == CallExtract \/ BinarizeCanvas

SpecExtract == ExtractInit /\ [][ExtractNext]_vars

\* C15: an image with no pixel below the ink cutoff 200 gives a canvas of
\* exactly 128 x 128 cells all 1.0, and every image gives a canvas of
\* exactly 128 x 128 cells; the call does not fail.
C15_BlankImageGivesBlankCanvas ==
    pc = "extracted" =>
        /\ DOMAIN result = 0..(128 * 128 - 1)
        /\ (\A i \in DOMAIN image : image[i] >= 200) =>
               \A c \in DOMAIN result : result[c] = 255

\* A canvas was returned for an image that is not uniform and has no ink.
C15_Witness ==
    /\ pc = "extracted"
    /\ \E i \in DOMAIN image : image[i] = 200
    /\ \E i \in DOMAIN image : image[i] = 255
    /\ \A i \in DOMAIN image : image[i] >= 200
    /\ \A c \in DOMAIN result : result[c] = 255

-----------------------------------------------------------------------------
(* lib.rs: the entry points score_drawing and generate_reference_image,    *)
(* with the stages of their internal functions in scoring.rs.              *)

\* UTF-8 encoding of a scalar below U+0800.
utf8(c) == IF c < 128 THEN <<c>> ELSE <<192 + (c \div 64), 128 + (c % 64)>>

RECURSIVE encode(_)
encode(cs) == IF cs = <<>> THEN <<>> ELSE utf8(Head(cs)) \o encode(Tail(cs))

\* The scalar the string ends with.
chars_last(bytes) ==
    IF bytes = <<>> THEN <<>>
    ELSE IF bytes[Len(bytes)] < 128 THEN <<bytes[Len(bytes)]>>
    ELSE <<(bytes[Len(bytes) - 1] - 192) * 64 + (bytes[Len(bytes)] - 128)>>

\* character.chars().next(): <<>> is None, <<c>> is Some(c).
chars_next(bytes) ==
    IF bytes = <<>> THEN <<>>
    ELSE IF bytes[1] < 128 THEN <<bytes[1]>>
    ELSE <<(bytes[1] - 192) * 64 + (bytes[2] - 128)>>

\* scoring::score_drawing_internal as <<stages run, Result>>: the image is
\* decoded, the font parsed for the reference glyph, then both are scored.
score_drawing_internal(data, char, font) ==
    IF data # "png"
    THEN <<(<<"decode">>), (<<"Err", "Failed to decode image">>)>>
    ELSE IF font # "ttf"
    THEN <<(<<"decode", "font">>), (<<"Err", "Failed to parse font data">>)>>
    ELSE <<(<<"decode", "font", "score">>),
           (<<"Ok", [reference |-> char, drawing |-> data]>>)>>

\* scoring::generate_reference_image_internal as <<stages run, Result>>.
generate_reference_image_internal(char, font, sz) ==
    IF font # "ttf"
    THEN <<(<<"font">>), (<<"Err", "Failed to parse font data">>)>>
    ELSE <<(<<"font", "encode">>), (<<"Ok", [reference |-> char, side |-> sz]>>)>>

\* lib.rs score_drawing
score_drawing(data, str, font) ==
    LET char == chars_next(str)
    IN IF char = <<>> THEN <<(<<>>), (<<"Err", "Empty character string">>)>>
       ELSE score_drawing_internal(data, char[1], font)

\* lib.rs generate_reference_image
generate_reference_image(str, font, sz) ==
    LET char == chars_next(str)
    IN IF char = <<>> THEN <<(<<>>), (<<"Err", "Empty character string">>)>>
       ELSE generate_reference_image_internal(char[1], font, sz)

MaxChars == 2

\* 'A' and U+00E9, one and two bytes long in UTF-8.
scalars == {65, 233}

scalar_seqs == UNION {[1..n -> scalars] : n \in 0..MaxChars}

EntryInit ==
    /\ pc = "call"
    /\ \E cs \in scalar_seqs : character = encode(cs)
    /\ image_data \in {"png", "garbage", ""}
    /\ font_data \in {"ttf", "garbage", ""}
    /\ size \in {0, TARGET_SIZE}
    /\ drawn = <<>> /\ reference = <<>>
    /\ steps = <<>> /\ outcome = <<>>
    /\ image = <<>>
    /\ result = <<>>
    /\ skeleton = <<>>
    /\ ImageIdle /\ SkelIdle /\ MetricIdle /\ RatingIdle /\ BridgeIdle
    /\ PruneIdle /\ NormalizeIdle

CallScoreDrawing ==
    /\ pc = "call"
    /\ \E r \in {score_drawing(image_data, character, font_data)} :
          steps' = r[1] /\ outcome' = r[2]
    /\ pc' = "score_drawing"
    /\ UNCHANGED <<target_thickness, apply_sanding, image, character,
                   image_data, font_data, bridgeVars, pruneVars, imageVars,
                   skelVars, result, fieldVars, metricVars, ratingVars>>

CallGenerateReferenceImage ==
    /\ pc = "call"
    /\ \E r \in {generate_reference_image(character, font_data, size)} :
          steps' = r[1] /\ outcome' = r[2]
    /\ pc' = "generate_reference_image"
    /\ UNCHANGED <<target_thickness, apply_sanding, image, character,
                   image_data, font_data, bridgeVars, pruneVars, imageVars,
                   skelVars, result, fieldVars, metricVars, ratingVars>>

EntryNext == CallScoreDrawing \/ CallGenerateReferenceImage

SpecEntry == EntryInit /\ [][EntryNext]_vars

\* The scalars a string was built from.
scalars_of(bytes) == CHOOSE cs \in scalar_seqs : encode(cs) = bytes

\* What the entry point that was called returns on the string str.
returned_for(str) ==
    IF pc = "score_drawing" THEN score_drawing(image_data, str, font_data)[2]
    ELSE generate_reference_image(str, font_data, size)[2]

\* C16: both entry points use the first scalar of the string: the empty
\* string gives the error 'Empty character string' with no internal stage
\* run; a longer string gives what the string of its first scalar alone
\* gives, a result being for that scalar; and what is returned is one
\* result or one error.
C16_FirstScalarOnly ==
    pc \in {"score_drawing", "generate_reference_image"} =>
        /\ Len(outcome) = 2 /\ outcome[1] \in {"Ok", "Err"}
        /\ character = <<>> =>
               /\ outcome = <<"Err", "Empty character string">>
               /\ steps = <<>>
        /\ character # <<>> =>
               /\ outcome = returned_for(utf8(scalars_of(character)[1]))
               /\ outcome[1] = "Ok" =>
                      outcome[2].reference = scalars_of(character)[1]
               /\ outcome[1] = "Err" => outcome[2] # "Empty character string"

\* A result was returned for a string of two different scalars.
C16_Witness ==
    /\ pc \in {"score_drawing", "generate_reference_image"}
    /\ Len(scalars_of(character)) = 2
    /\ scalars_of(character)[1] # scalars_of(character)[2]
    /\ outcome[1] = "Ok"

\* C22: for target_thickness > 1, with or without sanding,
\* normalize_line_thickness returns a mask with at least one foreground
\* pixel whenever the mask it was given has one, also when thinning erased
\* the whole shape.
C22_NormalizeKeepsInk ==
    (pc = "normalized" /\ target_thickness > 1 /\ foreground(binary) # {})
        => foreground(result) # {}

\* The skeleton after bridge_gaps and prune_branches has fewer pixels than
\* the skeleton skeletonize returned.
sanding_shortened(m, w, h) ==
    Cardinality(foreground(working_skeleton(m, w, h, TRUE)))
        < Cardinality(foreground(skeletonize(m, w, h)))

\* A mask whose skeleton is empty was normalised with the scorer's thickness.
C22_Witness ==
    /\ pc = "normalized"
    /\ target_thickness = 5
    /\ foreground(binary) # {}
    /\ foreground(skeletonize(binary, width, height)) = {}
    /\ foreground(result) # {}

\* C21: one cutoff, 200 of 255, decides foreground: a canvas cell is
\* foreground in the mask given to the stroke normaliser exactly when the
\* pixel it was copied from is below 200, as the extractor counted it (the
\* cells not copied hold 1.0 and are background on both counts); so an
\* image with a pixel below 200 never gives an empty mask.
C21_SingleThreshold ==
    pc = "binarized" =>
        /\ \A c \in DOMAIN binary : binary[c] <=> (drawn[c] < 200)
        /\ (\E i \in DOMAIN image : image[i] < 200) => foreground(binary) # {}

====
